---------------------------- MODULE Spec2Model ----------------------------
(***************************************************************************)
(* Model of mlplexus.graph.GraphArch: the persisted architecture           *)
(* definition (Def file), the memory-mapped observation store (Dat file),  *)
(* and the handles (GraphArch objects) that create, load, modify and       *)
(* release them.                                                           *)
(*                                                                         *)
(* numpy arrays are records [kind, elt, shape, data]: kind tells a         *)
(* np.ndarray from a plain list and from None, elt is the element class    *)
(* ("num", "str", "obj"), shape the shape tuple and data the elements in   *)
(* row-major order.                                                        *)
(***************************************************************************)
EXTENDS Integers, Sequences, FiniteSets, TLC

VARIABLES
    defFile,   \* the definition metadata file <dir>/<class>.Def.<name>.npy
    datFile,   \* the observation data file <dir>/<class>.Dat.<name>.npy
    hs,        \* the GraphArch objects: attributes and the memmap of each
    hist,      \* per object: did it create the data file, has a modify call
               \* returned, has one written an observation
    last,      \* the last call and how it ended
    pc         \* per object: the modify call in progress and the step it is at

vars == <<defFile, datFile, hs, hist, last, pc>>

(***************************************************************************)
(* Bounds of the model.                                                    *)
(***************************************************************************)
MaxLen == 2

Handles == {1, 2}

(***************************************************************************)
(* numpy array helpers.                                                    *)
(***************************************************************************)
None == [kind |-> "none", elt |-> "num", shape |-> <<>>, data |-> <<>>]

RECURSIVE Prod(_)
Prod(s) == IF s = <<>> THEN 1 ELSE Head(s) * Prod(Tail(s))

Reverse(s) == [i \in 1..Len(s) |-> s[Len(s) + 1 - i]]

NdArray(elt, shape, data) == [kind |-> "ndarray", elt |-> elt, shape |-> shape, data |-> data]

PyList(elt, shape, data) == [kind |-> "list", elt |-> elt, shape |-> shape, data |-> data]

\* np.array(x): an ndarray with the elements and shape of x.
AsArray(a) == [a EXCEPT !.kind = "ndarray"]

Ndim(a) == Len(a.shape)

\* len(arr): the leading dimension.
PyLen(a) == a.shape[1]

\* arr.squeeze(): drops every axis of length one.
Squeeze(a) == [a EXCEPT !.shape = SelectSeq(a.shape, LAMBDA d : d # 1)]

\* np.expand_dims(arr, axis=0)
ExpandDims0(a) == [a EXCEPT !.shape = <<1>> \o a.shape]

\* arr.flatten()
Flatten(a) == [a EXCEPT !.shape = <<Prod(a.shape)>>]

\* The multi-index (zero-based) of flat position p (zero-based) in shape s.
RECURSIVE Unravel(_, _)
Unravel(p, s) ==
    IF s = <<>> THEN <<>>
    ELSE LET inner == Prod(Tail(s))
         IN  <<p \div inner>> \o Unravel(p % inner, Tail(s))

\* The flat position (zero-based) of multi-index m in shape s.
RECURSIVE Ravel(_, _)
Ravel(m, s) ==
    IF s = <<>> THEN 0
    ELSE Head(m) * Prod(Tail(s)) + Ravel(Tail(m), Tail(s))

\* arr.T: the axes reversed.
Transpose(a) ==
    LET ns == Reverse(a.shape)
    IN  [a EXCEPT !.shape = ns,
                  !.data = [p \in 1..Len(a.data) |->
                              a.data[Ravel(Reverse(Unravel(p - 1, ns)), a.shape) + 1]]]

\* np.arange(lo, hi)
Arange(lo, hi) == NdArray("num", <<hi - lo>>, [i \in 1..(hi - lo) |-> lo + i - 1])

\* Row j (one-based) of an array whose leading axis is the observation axis.
Row(a, j) ==
    LET w == Prod(Tail(a.shape))
    IN  [i \in 1..w |-> a.data[(j - 1) * w + i]]

RECURSIVE SeqMax(_)
SeqMax(s) == IF Len(s) = 1 THEN s[1]
             ELSE LET m == SeqMax(Tail(s)) IN IF s[1] > m THEN s[1] ELSE m

(***************************************************************************)
(* checks.py                                                               *)
(***************************************************************************)
checkArrSqr(arr) == arr.shape[1] = arr.shape[2]

checkArrDims(arr, n_dim) == Ndim(arr) = n_dim

checkArrDTypeStr(arr) == arr.elt = "str"

checkType_ndarray(obj) == obj.kind = "ndarray"

(***************************************************************************)
(* The architecture definition: GraphArch.__init__, the creation branch.   *)
(***************************************************************************)

\* np.array(node_id, dtype=str) 
AsStr(a) == [a EXCEPT !.kind = "ndarray", !.elt = "str"]

\* Lines 89-93: the conversion sits in the else branch, so it is applied only
\* to identifiers that are strings already.
NodeIdDType(node_id) ==
    IF ~checkArrDTypeStr(node_id) THEN node_id ELSE AsStr(node_id)

\* Lines 95-99: likewise the flattening is applied only to flat arrays.
NodeIdDims(node_id) ==
    IF ~checkArrDims(node_id, 1) THEN node_id ELSE Flatten(node_id)

\* np.dtype((np.float64, (n_node))): (n_node) is the bare integer, and numpy
\* reads (type, 1) as the plain scalar type, so a one-node activity field has
\* no node axis.
ActivityFieldShape(n_node) == IF n_node = 1 THEN <<>> ELSE <<n_node>>

\* Lines 110-116: the record schema.
ArchDType(n_node, layer_id) ==
    [activity |-> ActivityFieldShape(n_node),
     adjacency |-> <<n_node, n_node>>,
     layers |-> layer_id.fields]

\* arch_dtype['layers'].names
LayerNames(arch_dtype) == {arch_dtype.layers[i][1] : i \in 1..Len(arch_dtype.layers)}

NoDef == [exists |-> FALSE]

\* _io_arch_def with save_defs: np.save of the mapping.
DefSave(node_id, n_node, arch_dtype) ==
    [exists |-> TRUE, node_id |-> node_id, n_node |-> n_node, arch_dtype |-> arch_dtype]

\* One record of zero bytes, what a file extension fills in.
ZeroRec(arch_dtype) ==
    [activity |-> [i \in 1..Prod(arch_dtype.activity) |-> 0],
     adjacency |-> [i \in 1..Prod(arch_dtype.adjacency) |-> 0],
     layers |-> [k \in LayerNames(arch_dtype) |-> 0]]

NoDat == [exists |-> FALSE, recs |-> <<>>]

NoHandle == [state |-> "none"]

\* _io_arch_dat: the memmap (mode, length) bound to self.dataset, the flag
\* data_new and the file afterwards.  A missing file is created by
\* np.memmap(mode='w+', shape=()): a zero-dimensional array has one element,
\* so the new file holds one record; the handle then maps it with shape (0,).
IoArchDat(dat, arch_dtype) ==
    IF dat.exists
    THEN [dat |-> dat, mode |-> "r", len |-> Len(dat.recs), data_new |-> FALSE]
    ELSE [dat |-> [exists |-> TRUE, recs |-> <<ZeroRec(arch_dtype)>>],
          mode |-> "r", len |-> 0, data_new |-> TRUE]

\* The handle after _io_arch_def has set the loaded attributes and
\* _io_arch_dat has mapped the data file.
OpenHandle(def, io) ==
    [state |-> "open", node_id |-> def.node_id, n_node |-> def.n_node,
     arch_dtype |-> def.arch_dtype, mode |-> io.mode, len |-> io.len,
     data_new |-> io.data_new]

\* The test of line 81 taken to hold always: every construction defines anew.
DefMissingAlways(def) == TRUE

\* Line 81: not checkPath(arch_def_path)
DefMissing(def) == ~def.exists

\* GraphArch.__init__: the outcome [result, def, dat, handle].  Lines 102-107
\* turn a TypeError of np.dtype(layer_id) into mlPlexusTypeError; any other
\* exception of np.dtype leaves __init__ as it is.
InitOutcome(def, dat, name_ok, node_id, layer_id) ==
    LET fail(e) == [result |-> e, def |-> def, dat |-> dat, handle |-> NoHandle]
    IN
    IF ~name_ok THEN fail("mlPlexusTypeError")
    ELSE IF DefMissing(def)
    THEN IF ~checkType_ndarray(node_id) THEN fail("mlPlexusTypeError")
         ELSE IF ~layer_id.valid
         THEN fail(IF layer_id.raises = "TypeError" THEN "mlPlexusTypeError"
                   ELSE layer_id.raises)
         ELSE LET nid == NodeIdDims(NodeIdDType(node_id))
                  n_node == PyLen(nid)
                  ndef == DefSave(nid, n_node, ArchDType(n_node, layer_id))
                  io == IoArchDat(dat, ndef.arch_dtype)
              IN  [result |-> "ok", def |-> ndef, dat |-> io.dat,
                   handle |-> OpenHandle(ndef, io)]
    ELSE LET io == IoArchDat(dat, def.arch_dtype)
         IN  [result |-> "ok", def |-> def, dat |-> io.dat,
              handle |-> OpenHandle(def, io)]

\* GraphArch.__del__: the data file afterwards.
DelOutcome(dat, handle) ==
    IF handle.data_new THEN NoDat ELSE dat

(***************************************************************************)
(* GraphArch._check_data_input                                             *)
(***************************************************************************)

\* Lines 181-188: what one supplied array adds to obs_list.
ObsCount(arr) ==
    IF arr.kind = "ndarray"
    THEN IF Ndim(arr) > 1 THEN PyLen(arr) ELSE 0
    ELSE 0

\* Lines 172-175: arr_list, the two graph arrays and then every keyword
\* array, whatever its key.
ArrList(arr_activity, arr_adjacency, layer_data) ==
    <<arr_activity, arr_adjacency>> \o [i \in 1..Len(layer_data) |-> layer_data[i][2]]

\* Lines 180-189: n_obs, the largest entry of obs_list.
InferNObs(arr_list) == SeqMax([i \in 1..Len(arr_list) |-> ObsCount(arr_list[i])])

\* Lines 200-205: obs_ix as an index vector, or the error.
CheckObsIx(obs_ix) ==
    LET sq == Squeeze(AsArray(obs_ix))
        ix == IF Ndim(sq) = 0 THEN ExpandDims0(sq) ELSE sq
    IN  IF ~checkArrDims(ix, 1) THEN [err |-> "mlPlexusValueError", arr |-> ix]
        ELSE [err |-> "none", arr |-> ix]

\* Lines 207-218: arr_activity resolved to (n_obs, n_node), or the error.
CheckActivity(arr_activity, n_obs, n_node) ==
    IF arr_activity.kind = "none" THEN [err |-> "none", arr |-> arr_activity]
    ELSE LET sq == Squeeze(AsArray(arr_activity))
             a1 == IF checkArrDims(sq, 1) THEN ExpandDims0(sq) ELSE sq
         IN  IF a1.shape = <<n_obs, n_node>> THEN [err |-> "none", arr |-> a1]
             ELSE LET a2 == Transpose(a1)
                  IN  IF a2.shape = <<n_obs, n_node>> THEN [err |-> "none", arr |-> a2]
                      ELSE [err |-> "mlPlexusValueError", arr |-> a2]

\* Lines 220-234: arr_adjacency resolved to (n_obs, n_node, n_node), or the error.
CheckAdjacency(arr_adjacency, n_obs, n_node) ==
    IF arr_adjacency.kind = "none" THEN [err |-> "none", arr |-> arr_adjacency]
    ELSE LET sq == Squeeze(AsArray(arr_adjacency))
         IN  IF checkArrDims(sq, 2) /\ ~checkArrSqr(sq)
             THEN [err |-> "mlPlexusValueError", arr |-> sq]
             ELSE LET a1 == IF checkArrDims(sq, 2) THEN ExpandDims0(sq) ELSE sq
                  IN  IF a1.shape = <<n_obs, n_node, n_node>>
                      THEN [err |-> "none", arr |-> a1]
                      ELSE [err |-> "mlPlexusValueError", arr |-> a1]

\* Lines 244-257: one declared layer's data cast to the layer's type and
\* resolved to (n_obs,), or the error.  np.array(.., dtype=float) raises
\* TypeError for objects that are no numbers, which line 248 catches, and
\* ValueError for text that is no number, which nothing catches.
CheckLayer(lr_data, n_obs) ==
    IF lr_data.elt = "obj" THEN [err |-> "mlPlexusTypeError", arr |-> lr_data]
    ELSE IF lr_data.elt = "str" THEN [err |-> "ValueError", arr |-> lr_data]
    ELSE LET sq == Squeeze(AsArray(lr_data))
             l1 == IF Ndim(sq) = 0 THEN ExpandDims0(sq) ELSE sq
         IN  IF l1.shape = <<n_obs>> THEN [err |-> "none", arr |-> l1]
             ELSE [err |-> "mlPlexusValueError", arr |-> l1]

\* Lines 236-257: the loop over the keyword arrays in their order; an
\* undeclared key is dropped.
RECURSIVE CheckLayers(_, _, _)
CheckLayers(layer_data, n_obs, names) ==
    IF layer_data = <<>> THEN [err |-> "none", layers |-> <<>>]
    ELSE LET key == layer_data[1][1]
         IN  IF key \notin names THEN CheckLayers(Tail(layer_data), n_obs, names)
             ELSE LET c == CheckLayer(layer_data[1][2], n_obs)
                  IN  IF c.err # "none" THEN [err |-> c.err, layers |-> <<>>]
                      ELSE LET rest == CheckLayers(Tail(layer_data), n_obs, names)
                           IN  [err |-> rest.err,
                                layers |-> <<(<<key, c.arr>>)>> \o rest.layers]

\* _check_data_input: [err, obs_ix, arr_activity, arr_adjacency, layer_data].
CheckDataInput(handle, obs_ix, arr_activity, arr_adjacency, layer_data) ==
    LET fail(e) == [err |-> e, obs_ix |-> None, arr_activity |-> None,
                    arr_adjacency |-> None, layer_data |-> <<>>]
        curr_len == handle.len
        n_inf == InferNObs(ArrList(arr_activity, arr_adjacency, layer_data))
    IN
    IF obs_ix.kind = "none" /\ ~(n_inf > 0) THEN fail("mlPlexusValueError")
    ELSE LET ix0 == IF obs_ix.kind = "none" THEN Arange(curr_len, curr_len + n_inf)
                    ELSE obs_ix
             ix == CheckObsIx(ix0)
         IN
         IF ix.err # "none" THEN fail(ix.err)
         ELSE LET n_obs == PyLen(ix.arr)
                  act == CheckActivity(arr_activity, n_obs, handle.n_node)
              IN
              IF act.err # "none" THEN fail(act.err)
              ELSE LET adj == CheckAdjacency(arr_adjacency, n_obs, handle.n_node)
                   IN
                   IF adj.err # "none" THEN fail(adj.err)
                   ELSE LET lay == CheckLayers(layer_data, n_obs,
                                               LayerNames(handle.arch_dtype))
                        IN
                        IF lay.err # "none" THEN fail(lay.err)
                        ELSE [err |-> "none", obs_ix |-> ix.arr,
                              arr_activity |-> act.arr, arr_adjacency |-> adj.arr,
                              layer_data |-> lay.layers]

(***************************************************************************)
(* GraphArch.modify                                                        *)
(***************************************************************************)

\* The record a (possibly negative) index selects in an array of length n,
\* zero-based; numpy raises IndexError outside -n..n-1.
ResolveIx(i, n) == IF i < 0 THEN i + n ELSE i

IxInRange(i, n) == -n <= i /\ i < n

\* The last position of obs_ix that selects record r (zero-based), 0 if none:
\* an index assignment with a repeated index keeps the last value.
LastPos(obs_ix, r, n) ==
    LET hits == {j \in 1..Len(obs_ix.data) : ResolveIx(obs_ix.data[j], n) = r}
    IN  IF hits = {} THEN 0 ELSE CHOOSE j \in hits : \A k \in hits : k <= j

\* The reopening with mode 'w+' in place of 'r+': the file is made anew, all
\* zero bytes, at the mapped length.
ReopenWritableAnew(dat, curr_len, max_obs_ix, arch_dtype) ==
    IF ~dat.exists THEN [err |-> "FileNotFoundError", len |-> curr_len, recs |-> dat.recs]
    ELSE LET n == IF max_obs_ix < curr_len THEN Len(dat.recs) ELSE max_obs_ix + 1
         IN  [err |-> "none", len |-> n, recs |-> [i \in 1..n |-> ZeroRec(arch_dtype)]]

\* Lines 298-306: the writable memmap, [err, len, recs].  With no shape the
\* whole file is mapped; with shape (max_obs_ix + 1,) a shorter file is
\* extended with zero bytes and a longer one is left as long as it is.
ReopenWritable(dat, curr_len, max_obs_ix, arch_dtype) ==
    IF ~dat.exists THEN [err |-> "FileNotFoundError", len |-> curr_len, recs |-> dat.recs]
    ELSE IF max_obs_ix < curr_len
    THEN [err |-> "none", len |-> Len(dat.recs), recs |-> dat.recs]
    ELSE [err |-> "none", len |-> max_obs_ix + 1,
          recs |-> dat.recs \o [i \in 1..(max_obs_ix + 1 - Len(dat.recs)) |->
                                  ZeroRec(arch_dtype)]]

\* The index assignment reporting a view with too few axes as the
\* ValueError-kind error of the shape checks.
AssignErrorAsShapeError(obs_ix, arr, n, view_ndim, n_index) ==
    IF n_index > view_ndim THEN "mlPlexusValueError"
    ELSE IF \E j \in 1..Len(obs_ix.data) : ~IxInRange(obs_ix.data[j], n) THEN "IndexError"
    ELSE IF arr.elt = "str" THEN "ValueError"
    ELSE IF arr.elt = "obj" THEN "TypeError"
    ELSE "none"

\* The error of an index assignment view[obs_ix, ...] = arr, where the view
\* has view_ndim axes and n_index index positions are written.
AssignError(obs_ix, arr, n, view_ndim, n_index) ==
    IF n_index > view_ndim THEN "IndexError"
    ELSE IF \E j \in 1..Len(obs_ix.data) : ~IxInRange(obs_ix.data[j], n) THEN "IndexError"
    ELSE IF arr.elt = "str" THEN "ValueError"
    ELSE IF arr.elt = "obj" THEN "TypeError"
    ELSE "none"

\* The assignment sparing every record that holds activity already.
WriteActivityVacant(recs, n, obs_ix, arr, arch_dtype) ==
    LET e == AssignError(obs_ix, arr, n, 1 + Len(arch_dtype.activity), 2)
    IN  IF e # "none" THEN [err |-> e, recs |-> recs]
        ELSE [err |-> "none",
              recs |-> [r \in 1..Len(recs) |->
                          LET j == LastPos(obs_ix, r - 1, n)
                          IN  IF r <= n /\ j # 0
                                   /\ recs[r].activity = ZeroRec(arch_dtype).activity
                              THEN [recs[r] EXCEPT !.activity = Row(arr, j)]
                              ELSE recs[r]]]

\* Line 310: self.dataset['graph']['activity'][obs_ix, :] = arr_activity
WriteActivity(recs, n, obs_ix, arr, arch_dtype) ==
    LET e == AssignError(obs_ix, arr, n, 1 + Len(arch_dtype.activity), 2)
    IN  IF e # "none" THEN [err |-> e, recs |-> recs]
        ELSE [err |-> "none",
              recs |-> [r \in 1..Len(recs) |->
                          LET j == LastPos(obs_ix, r - 1, n)
                          IN  IF r <= n /\ j # 0
                              THEN [recs[r] EXCEPT !.activity = Row(arr, j)]
                              ELSE recs[r]]]

\* Lines 312-313: self.dataset['graph']['adjacency'][obs_ix, :, :] = arr_adjacency
WriteAdjacency(recs, n, obs_ix, arr, arch_dtype) ==
    LET e == AssignError(obs_ix, arr, n, 1 + Len(arch_dtype.adjacency), 3)
    IN  IF e # "none" THEN [err |-> e, recs |-> recs]
        ELSE [err |-> "none",
              recs |-> [r \in 1..Len(recs) |->
                          LET j == LastPos(obs_ix, r - 1, n)
                          IN  IF r <= n /\ j # 0
                              THEN [recs[r] EXCEPT !.adjacency = Row(arr, j)]
                              ELSE recs[r]]]

\* Line 315: self.dataset['layers'][key][obs_ix] = layer_data[key]
WriteLayer(recs, n, obs_ix, key, arr) ==
    LET e == AssignError(obs_ix, arr, n, 1, 1)
    IN  IF e # "none" THEN [err |-> e, recs |-> recs]
        ELSE [err |-> "none",
              recs |-> [r \in 1..Len(recs) |->
                          LET j == LastPos(obs_ix, r - 1, n)
                          IN  IF r <= n /\ j # 0
                              THEN [recs[r] EXCEPT !.layers[key] = arr.data[j]]
                              ELSE recs[r]]]

\* Lines 314-315: the loop over the checked layers.
RECURSIVE WriteLayers(_, _, _, _)
WriteLayers(recs, n, obs_ix, layer_data) ==
    IF layer_data = <<>> THEN [err |-> "none", recs |-> recs]
    ELSE LET w == WriteLayer(recs, n, obs_ix, layer_data[1][1], layer_data[1][2])
         IN  IF w.err # "none" THEN w
             ELSE WriteLayers(w.recs, n, obs_ix, Tail(layer_data))

\* Lines 308-315: the writes in their order; an error stops them and keeps
\* what was written before it.
WriteAll(recs, n, c, arch_dtype) ==
    LET w1 == IF c.arr_activity.kind = "none" THEN [err |-> "none", recs |-> recs]
              ELSE WriteActivity(recs, n, c.obs_ix, c.arr_activity, arch_dtype)
    IN  IF w1.err # "none" THEN w1
        ELSE LET w2 == IF c.arr_adjacency.kind = "none" THEN w1
                       ELSE WriteAdjacency(w1.recs, n, c.obs_ix, c.arr_adjacency, arch_dtype)
             IN  IF w2.err # "none" THEN w2
                 ELSE WriteLayers(w2.recs, n, c.obs_ix, c.layer_data)

\* Line 321 left out: the flag is never cleared.
ClearDataNewNever(handle) == handle

\* Line 321: the flag after a call that reached the end of modify.
ClearDataNew(handle) == [handle EXCEPT !.data_new = FALSE]

\* Lines 316-318: after the flush the file is mapped again read-only, whole.
ReopenReadOnly(handle, recs) == [handle EXCEPT !.mode = "r", !.len = Len(recs)]

\* The records (zero-based) that obs_ix selects in an array of length n.
Targets(obs_ix, n) == {ResolveIx(obs_ix.data[j], n) : j \in 1..Len(obs_ix.data)}

\* modify: the outcome [result, dat, handle, wrote, targets]; wrote tells
\* whether the call returned after writing at least one observation, targets
\* the records it assigned to.
ModifyOutcome(handle, dat, obs_ix, arr_activity, arr_adjacency, layer_data) ==
    LET c == CheckDataInput(handle, obs_ix, arr_activity, arr_adjacency, layer_data)
    IN
    IF c.err # "none"
    THEN [result |-> c.err, dat |-> dat, handle |-> handle, wrote |-> FALSE,
          targets |-> {}]
    ELSE IF ~(PyLen(c.obs_ix) > 0)
    THEN [result |-> "ok", dat |-> dat, handle |-> ClearDataNew(handle), wrote |-> FALSE,
          targets |-> {}]
    ELSE LET max_obs_ix == SeqMax(c.obs_ix.data)
             rw == ReopenWritable(dat, handle.len, max_obs_ix, handle.arch_dtype)
         IN
         IF rw.err # "none"
         THEN [result |-> rw.err, dat |-> dat, handle |-> handle, wrote |-> FALSE,
               targets |-> {}]
         ELSE LET w == WriteAll(rw.recs, rw.len, c, handle.arch_dtype)
                  ndat == [dat EXCEPT !.recs = w.recs]
              IN
              IF w.err # "none"
              THEN [result |-> w.err, dat |-> ndat,
                    handle |-> [handle EXCEPT !.mode = "r+", !.len = rw.len],
                    wrote |-> FALSE,
                    targets |-> IF w.recs = rw.recs THEN {}
                                ELSE Targets(c.obs_ix, rw.len)]
              ELSE [result |-> "ok", dat |-> ndat,
                    handle |-> ClearDataNew(ReopenReadOnly(handle, w.recs)),
                    wrote |-> TRUE, targets |-> Targets(c.obs_ix, rw.len)]

(***************************************************************************)
(* Inputs of the calls.                                                    *)
(***************************************************************************)

\* Elements 1, 2, 3, .. in row-major order: every row differs.
Ramp(shape) == NdArray("num", shape, [p \in 1..Prod(shape) |-> p])

Const(shape, v) == NdArray("num", shape, [p \in 1..Prod(shape) |-> v])

Vec(data) == NdArray("num", <<Len(data)>>, data)

\* layer_id values: valid tells whether np.dtype(layer_id) returns, raises
\* what it raises otherwise.
ValidLayers == [valid |-> TRUE, raises |-> "none", fields |-> <<(<<"time", "f8">>)>>]

\* A layer_id numpy does not understand, as [('time', 'notatype')]: TypeError.
InvalidLayers == [valid |-> FALSE, raises |-> "TypeError", fields |-> <<>>]

\* A layer_id that names a field twice, as [('time', 'f8'), ('time', 'f8')]:
\* np.dtype raises ValueError ("field 'time' occurs more than once").
DuplicateLayers == [valid |-> FALSE, raises |-> "ValueError", fields |-> <<>>]

DefLayerIds == {ValidLayers, InvalidLayers, DuplicateLayers}

NodeAB == NdArray("str", <<2>>, <<"A", "B">>)

NodeA == NdArray("str", <<1>>, <<"A">>)

NodeAA == NdArray("str", <<2>>, <<"A", "A">>)

NodeInts == NdArray("int", <<2>>, <<"1", "2">>)

Node2D == NdArray("str", <<1, 2>>, <<"A", "B">>)

NodeList == PyList("str", <<2>>, <<"A", "B">>)

StoreNodeIds == {NodeAB, NodeA}

DefNodeIds == {None, NodeList, NodeAB, NodeA, NodeAA, NodeInts, Node2D}

ObsIxInputs ==
    {None, NdArray("num", <<>>, <<0>>), Vec(<<>>), NdArray("num", <<2, 2>>, <<0, 1, 0, 1>>),
     Vec(<<0, 0>>), Vec(<<1, 0>>)}
    \cup {Vec(<<i>>) : i \in -2..(MaxLen - 1)}
    \cup {Vec(<<i, i + 1>>) : i \in 0..(MaxLen - 2)}

FewObsIx == {None, Vec(<<0>>), Vec(<<MaxLen - 1>>), Vec(<<0, 1>>)}

ActivityInputs == {Ramp(<<k, 2>>) : k \in 1..MaxLen}

OddActivityInputs ==
    {Ramp(<<k, 1>>) : k \in 1..MaxLen}
    \cup {Ramp(<<2>>), Ramp(<<1, 3>>), PyList("num", <<1, 2>>, <<1, 2>>),
          NdArray("str", <<1, 2>>, <<0, 0>>)}

AdjacencyInputs ==
    {Const(<<2, 2>>, 1), Const(<<1, 1>>, 1), Ramp(<<2, 3>>)}
    \cup {Const(<<k, 2, 2>>, 1) : k \in 1..MaxLen}

TimeInputs ==
    {Vec(<<5>>), Vec(<<5, 5>>), NdArray("str", <<1>>, <<0>>), NdArray("obj", <<1>>, <<0>>)}

BogusInputs == {Vec(<<7>>), Const(<<MaxLen, 2>>, 7)}

LayerInputs ==
    {<<(<<"time", t>>)>> : t \in TimeInputs}
    \cup {<<(<<"bogus", b>>)>> : b \in BogusInputs}
    \cup {<<(<<"bogus", b>>), (<<"time", Vec(<<5>>)>>)>> : b \in BogusInputs}

Call(obs_ix, act, adj, lay) ==
    [obs_ix |-> obs_ix, arr_activity |-> act, arr_adjacency |-> adj, layer_data |-> lay]

\* Calls that supply one kind of data.
SingleCalls ==
    {Call(o, a, None, <<>>) : o \in ObsIxInputs, a \in ActivityInputs \cup {None}}
    \cup {Call(o, a, None, <<>>) : o \in {None, Vec(<<0>>)}, a \in OddActivityInputs}
    \cup {Call(o, None, a, <<>>) : o \in FewObsIx, a \in AdjacencyInputs}
    \cup {Call(o, None, None, l) : o \in FewObsIx, l \in LayerInputs}

\* Calls that supply several kinds of data for one observation.
MixedCalls ==
    {Call(o, a, j, l) :
        o \in {None, Vec(<<0>>)},
        a \in {None, Ramp(<<1, 2>>)},
        j \in {None, Const(<<2, 2>>, 1)},
        l \in {<<>>, <<(<<"time", Vec(<<5>>)>>)>>,
               <<(<<"time", NdArray("str", <<1>>, <<0>>)>>)>>,
               <<(<<"time", NdArray("obj", <<1>>, <<0>>)>>)>>,
               <<(<<"bogus", Const(<<MaxLen, 2>>, 7)>>)>>}}

StoreCalls == SingleCalls \cup MixedCalls

\* The calls of the specification that explores the definitions.
DefCalls ==
    {Call(None, Ramp(<<1, 2>>), None, <<>>),
     Call(None, None, None, <<(<<"time", Vec(<<5>>)>>)>>),
     Call(Vec(<<0>>), None, None, <<(<<"time", Vec(<<5>>)>>)>>),
     Call(Vec(<<>>), None, None, <<>>)}

NoCall == Call(None, None, None, <<>>)

\* What the log keeps of a modify call that returned: the call, whether
\* obs_ix was omitted, which data was supplied and which records were
\* assigned to.  Of a call that raised it keeps the error and the records
\* assigned to.
Supplied(call) ==
    (IF call.arr_activity.kind = "none" THEN {} ELSE {"activity"})
    \cup (IF call.arr_adjacency.kind = "none" THEN {} ELSE {"adjacency"})
    \cup {call.layer_data[i][1] : i \in 1..Len(call.layer_data)}

Summary(call, o) ==
    IF o.result = "ok"
    THEN [call |-> call, append |-> call.obs_ix.kind = "none",
          fields |-> Supplied(call), targets |-> o.targets]
    ELSE [call |-> NoCall, append |-> FALSE, fields |-> {}, targets |-> o.targets]

(***************************************************************************)
(* The state machine.                                                      *)
(***************************************************************************)
NoHist == [created |-> FALSE, modified |-> FALSE, wrote |-> FALSE]

\* The checked arguments of no call.
NoChecked ==
    [err |-> "none", obs_ix |-> None, arr_activity |-> None, arr_adjacency |-> None,
     layer_data |-> <<>>]

\* No modify call in progress.  Of a call in progress, detached tells that
\* the file its writable memmap maps has been removed from the directory
\* since: the mapping lives on, its pages reach no file any path names.
Idle == [at |-> "idle", call |-> NoCall, c |-> NoChecked, detached |-> FALSE]

\* os.remove of the data file as the calls in progress see it: every
\* writable memmap made before it (a call at its write or flush step) is
\* left mapping the unlinked file.
Detach(p, removed) ==
    [g \in DOMAIN p |->
        IF removed /\ p[g].at \in {"write", "finish"}
        THEN [p[g] EXCEPT !.detached = TRUE]
        ELSE p[g]]

Init ==
    /\ defFile = NoDef
    /\ datFile = NoDat
    /\ hs = [h \in Handles |-> NoHandle]
    /\ hist = [h \in Handles |-> NoHist]
    /\ last = [op |-> "none", h |-> 0, result |-> "none", args |-> <<>>]
    /\ pc = [h \in Handles |-> Idle]

\* What g = GraphArch(arch_name, arch_dir, node_id, layer_id) does.
Constructed(h, name_ok, node_id, layer_id) ==
    /\ \E o \in {InitOutcome(defFile, datFile, name_ok, node_id, layer_id)} :
           /\ defFile' = o.def
           /\ datFile' = o.dat
           /\ hs' = [hs EXCEPT ![h] = o.handle]
           /\ hist' = [hist EXCEPT ![h] =
                         [NoHist EXCEPT !.created = o.result = "ok" /\ ~datFile.exists]]
           /\ last' = [op |-> "construct", h |-> h, result |-> o.result,
                       args |-> [name_ok |-> name_ok, node_id |-> node_id,
                                 layer_id |-> layer_id]]

\* g = GraphArch(arch_name, arch_dir, node_id, layer_id), while no other
\* handle is alive.
Construct(h, name_ok, node_id, layer_id) ==
    /\ \A g \in Handles : hs[g].state = "none"
    /\ Constructed(h, name_ok, node_id, layer_id)
    /\ UNCHANGED pc

\* g.modify(obs_ix, arr_activity, arr_adjacency, **layer_data)
Modify(h, call) ==
    /\ hs[h].state = "open"
    /\ \E o \in {ModifyOutcome(hs[h], datFile, call.obs_ix, call.arr_activity,
                               call.arr_adjacency, call.layer_data)} :
           /\ Len(o.dat.recs) <= MaxLen
           /\ datFile' = o.dat
           /\ hs' = [hs EXCEPT ![h] = o.handle]
           /\ hist' = [hist EXCEPT
                         ![h].modified = @ \/ o.result = "ok",
                         ![h].wrote = @ \/ o.wrote]
           /\ last' = [op |-> "modify", h |-> h, result |-> o.result,
                       args |-> Summary(call, o)]
    /\ UNCHANGED <<defFile, pc>>

\* del g.  The frame of a running modify call holds the object, so it is not
\* released while a call through it is in progress; calls through other
\* objects do not hold it back.
Release(h) ==
    /\ hs[h].state = "open"
    /\ pc[h].at = "idle"
    /\ datFile' = DelOutcome(datFile, hs[h])
    /\ hs' = [hs EXCEPT ![h] = NoHandle]
    /\ pc' = Detach(pc, datFile.exists /\ hs[h].data_new)
    /\ last' = [op |-> "release", h |-> h, result |-> "ok", args |-> <<>>]
    /\ UNCHANGED <<defFile, hist>>

SoleHandle == {1}

Next ==
    \/ \E h \in SoleHandle, name_ok \in BOOLEAN, node_id \in StoreNodeIds,
          layer_id \in {ValidLayers} : Construct(h, name_ok, node_id, layer_id)
    \/ \E h \in SoleHandle, call \in StoreCalls : Modify(h, call)
    \/ \E h \in SoleHandle : Release(h)

Spec == Init /\ [][Next]_vars

NextDef ==
    \/ \E h \in SoleHandle, name_ok \in BOOLEAN, node_id \in DefNodeIds,
          layer_id \in DefLayerIds :
            Construct(h, name_ok, node_id, layer_id)
    \/ \E h \in SoleHandle, call \in DefCalls : Modify(h, call)
    \/ \E h \in SoleHandle : Release(h)

SpecDef == Init /\ [][NextDef]_vars

(***************************************************************************)
(* Several handles on one (name, directory), and modify taken step by step *)
(* as its code runs: check, reopen writable, write, flush and reopen       *)
(* read-only.  Nothing in modify locks the file between the steps.         *)
(***************************************************************************)

\* The appends of writer h: k observations that hold h in every cell.
WriterCalls(h) == {Call(None, Const(<<k, 2>>, h), None, <<>>) : k \in 1..MaxLen}

\* g = GraphArch(..) while other handles may be alive.
ConstructAlongside(h, node_id, layer_id) ==
    /\ hs[h].state = "none"
    /\ Constructed(h, TRUE, node_id, layer_id)
    /\ pc' = [pc EXCEPT ![h] = Idle]

\* Lines 287-290: _check_data_input, which reads len(self.dataset) of this
\* handle's mapping and infers the indices of an append from it.
ModifyCheck(h, call) ==
    /\ hs[h].state = "open"
    /\ pc[h].at = "idle"
    /\ \E c \in {CheckDataInput(hs[h], call.obs_ix, call.arr_activity,
                                call.arr_adjacency, call.layer_data)} :
           /\ (c.err = "none" /\ PyLen(c.obs_ix) > 0) => SeqMax(c.obs_ix.data) < MaxLen
           /\ IF c.err # "none"
              THEN /\ pc' = [pc EXCEPT ![h] = Idle]
                   /\ last' = [op |-> "modify", h |-> h, result |-> c.err,
                               args |-> Summary(call, [result |-> c.err, targets |-> {}])]
              ELSE /\ pc' = [pc EXCEPT ![h] =
                                [at |-> IF PyLen(c.obs_ix) > 0 THEN "reopen" ELSE "finish",
                                 call |-> call, c |-> c, detached |-> FALSE]]
                   /\ UNCHANGED last
    /\ UNCHANGED <<defFile, datFile, hs, hist>>

\* Lines 296-306: the data file is mapped writable, by its path, and extended
\* when the largest index is not below the length this handle read.
ModifyReopen(h) ==
    /\ pc[h].at = "reopen"
    /\ \E rw \in {ReopenWritable(datFile, hs[h].len, SeqMax(pc[h].c.obs_ix.data),
                                 hs[h].arch_dtype)} :
           IF rw.err # "none"
           THEN /\ pc' = [pc EXCEPT ![h] = Idle]
                /\ last' = [op |-> "modify", h |-> h, result |-> rw.err,
                            args |-> Summary(pc[h].call, [result |-> rw.err, targets |-> {}])]
                /\ UNCHANGED <<datFile, hs>>
           ELSE /\ datFile' = [datFile EXCEPT !.recs = rw.recs]
                /\ hs' = [hs EXCEPT ![h].mode = "r+", ![h].len = rw.len]
                /\ pc' = [pc EXCEPT ![h].at = "write"]
                /\ UNCHANGED last
    /\ UNCHANGED <<defFile, hist>>

\* Lines 308-315: the index assignments through this handle's mapping.  The
\* pages of a detached mapping reach no file on disk.
ModifyWrite(h) ==
    /\ pc[h].at = "write"
    /\ \E w \in {IF pc[h].detached
                 THEN WriteAll([i \in 1..hs[h].len |-> ZeroRec(hs[h].arch_dtype)],
                               hs[h].len, pc[h].c, hs[h].arch_dtype)
                 ELSE WriteAll(datFile.recs, hs[h].len, pc[h].c, hs[h].arch_dtype)} :
           /\ datFile' = IF pc[h].detached THEN datFile
                         ELSE [datFile EXCEPT !.recs = w.recs]
           /\ IF w.err # "none"
              THEN /\ pc' = [pc EXCEPT ![h] = Idle]
                   /\ last' = [op |-> "modify", h |-> h, result |-> w.err,
                               args |-> Summary(pc[h].call,
                                                [result |-> w.err, targets |-> {}])]
              ELSE /\ pc' = [pc EXCEPT ![h].at = "finish"]
                   /\ UNCHANGED last
    /\ UNCHANGED <<defFile, hs, hist>>

\* Lines 316-321: flush, the read-only mapping of the whole file, opened by
\* its path, and the flag.  With no file at the path np.memmap raises
\* FileNotFoundError at line 317: the handle keeps the writable mapping and
\* line 321 is not reached.  The log keeps the call and its checked arguments.
ModifyFinish(h) ==
    /\ pc[h].at = "finish"
    /\ \E wrote \in {PyLen(pc[h].c.obs_ix) > 0} :
           IF wrote /\ ~datFile.exists
           THEN /\ last' = [op |-> "modify", h |-> h, result |-> "FileNotFoundError",
                            args |-> Summary(pc[h].call,
                                             [result |-> "FileNotFoundError",
                                              targets |-> {}])]
                /\ pc' = [pc EXCEPT ![h] = Idle]
                /\ UNCHANGED <<hs, hist>>
           ELSE /\ hs' = [hs EXCEPT ![h] =
                             IF wrote
                             THEN ClearDataNew(ReopenReadOnly(hs[h], datFile.recs))
                             ELSE ClearDataNew(hs[h])]
                /\ hist' = [hist EXCEPT ![h].modified = TRUE, ![h].wrote = @ \/ wrote]
                /\ last' = [op |-> "modify", h |-> h, result |-> "ok",
                            args |-> Summary(pc[h].call,
                                             [result |-> "ok",
                                              targets |-> IF wrote
                                                          THEN Targets(pc[h].c.obs_ix,
                                                                       hs[h].len)
                                                          ELSE {}])]
                /\ pc' = [pc EXCEPT ![h].at = "idle", ![h].detached = FALSE]
    /\ UNCHANGED <<defFile, datFile>>

\* No modify call is in progress through any handle.
AllIdle == \A g \in Handles : pc[g].at = "idle"

NextShared ==
    \/ \E h \in Handles : ConstructAlongside(h, NodeAB, ValidLayers)
    \/ \E h \in Handles : \E call \in WriterCalls(h) : ModifyCheck(h, call)
    \/ \E h \in Handles : ModifyReopen(h)
    \/ \E h \in Handles : ModifyWrite(h)
    \/ \E h \in Handles : ModifyFinish(h)
    \/ \E h \in Handles : Release(h)

SpecShared == Init /\ [][NextShared]_vars

(***************************************************************************)
(* Properties.                                                             *)
(***************************************************************************)

\* The records of the data file at zero-based indices lo..hi-1 are the same
\* before and after the step.
RecsKept(lo, hi) ==
    \A i \in (lo + 1)..hi :
        /\ i <= Len(datFile.recs)
        /\ i <= Len(datFile'.recs)
        /\ datFile'.recs[i] = datFile.recs[i]

\* An append of activity alone: obs_ix omitted and an ndarray of shape
\* (k, n_node), k >= 1.
IsActivityAppend(call, handle) ==
    /\ call.obs_ix.kind = "none"
    /\ call.arr_adjacency.kind = "none"
    /\ call.layer_data = <<>>
    /\ call.arr_activity.kind = "ndarray"
    /\ call.arr_activity.elt = "num"
    /\ Ndim(call.arr_activity) = 2
    /\ call.arr_activity.shape[1] >= 1
    /\ call.arr_activity.shape[2] = handle.n_node

\* What C1 promises of such a step on a store of length L.
ActivityAppended(h, call) ==
    LET L == hs[h].len
        k == call.arr_activity.shape[1]
    IN  /\ last'.result = "ok"
        /\ hs'[h].len = L + k
        /\ Len(datFile'.recs) = L + k
        /\ \A j \in 1..k : datFile'.recs[L + j].activity = Row(call.arr_activity, j)
        /\ RecsKept(0, L)

\* C1: on every store of length L, a modify call with obs_ix omitted and only
\* an activity array of shape (k, n_node), k >= 1, succeeds, writes the
\* activity at indices L..L+k-1, leaves the length at L+k and the records
\* below L as they were.
C1_AppendActivity ==
    [][\A h \in SoleHandle, call \in StoreCalls :
         (hs[h].state = "open" /\ IsActivityAppend(call, hs[h]) /\ Modify(h, call))
            => ActivityAppended(h, call)]_vars

\* A modify call that supplies adjacency as one square (n_node, n_node)
\* ndarray, with obs_ix omitted or one index, and at most a one-observation
\* activity array and one value for the layer "time" beside it.
IsSquareAdjacencyCall(call, handle) ==
    /\ call.arr_adjacency.kind = "ndarray"
    /\ call.arr_adjacency.elt = "num"
    /\ call.arr_adjacency.shape = <<handle.n_node, handle.n_node>>
    /\ \/ call.obs_ix.kind = "none"
       \/ /\ call.obs_ix.kind = "ndarray"
          /\ call.obs_ix.shape = <<1>>
          /\ call.obs_ix.data[1] >= 0
    /\ \/ call.arr_activity.kind = "none"
       \/ /\ call.arr_activity.kind = "ndarray"
          /\ call.arr_activity.elt = "num"
          /\ call.arr_activity.shape = <<1, handle.n_node>>
    /\ \/ call.layer_data = <<>>
       \/ /\ Len(call.layer_data) = 1
          /\ call.layer_data[1][1] = "time"
          /\ call.layer_data[1][2].elt = "num"
          /\ call.layer_data[1][2].shape = <<1>>

\* What C2 promises of such a step: the matrix is the adjacency of exactly
\* one observation, the one appended or the one obs_ix names.
SquareAdjacencyWritten(h, call) ==
    LET L == hs[h].len
        t == IF call.obs_ix.kind = "none" THEN L ELSE call.obs_ix.data[1]
    IN  /\ last'.result = "ok"
        /\ hs'[h].len = IF t < L THEN L ELSE t + 1
        /\ Len(datFile'.recs) = hs'[h].len
        /\ datFile'.recs[t + 1].adjacency = call.arr_adjacency.data
        /\ RecsKept(0, IF t < L THEN t ELSE L)
        /\ RecsKept(t + 1, L)

\* C2: a single square (n_node, n_node) adjacency matrix is accepted and
\* written as exactly one observation, with obs_ix omitted as with obs_ix
\* supplied, alone as with one observation of activity and layer values.
C2_SquareAdjacency ==
    [][\A h \in SoleHandle, call \in StoreCalls :
         (hs[h].state = "open" /\ IsSquareAdjacencyCall(call, hs[h]) /\ Modify(h, call))
            => SquareAdjacencyWritten(h, call)]_vars

\* The position of key in the checked layers, 0 if it is not among them.
LayerPos(layer_data, key) ==
    LET hits == {i \in 1..Len(layer_data) : layer_data[i][1] = key}
    IN  IF hits = {} THEN 0 ELSE CHOOSE i \in hits : TRUE

\* What C3 promises of a call that returned: at the records obs_ix names the
\* supplied fields hold the supplied rows and the others their old values,
\* every other record is as it was, and the length is the same.
PartialUpdate(h, call) ==
    \E c \in {CheckDataInput(hs[h], call.obs_ix, call.arr_activity,
                              call.arr_adjacency, call.layer_data)},
       n \in {Len(datFile.recs)} :
        /\ hs'[h].len = hs[h].len
        /\ Len(datFile'.recs) = n
        /\ \A r \in 1..n :
             LET j == LastPos(c.obs_ix, r - 1, n)
                 old == datFile.recs[r]
                 new == datFile'.recs[r]
             IN  IF j = 0 THEN new = old
                 ELSE /\ new.activity = IF c.arr_activity.kind = "none" THEN old.activity
                                        ELSE Row(c.arr_activity, j)
                      /\ new.adjacency = IF c.arr_adjacency.kind = "none" THEN old.adjacency
                                         ELSE Row(c.arr_adjacency, j)
                      /\ \A k \in DOMAIN old.layers :
                           LET p == LayerPos(c.layer_data, k)
                           IN  new.layers[k] = IF p = 0 THEN old.layers[k]
                                               ELSE c.layer_data[p][2].data[j]

\* The step is a modify call through h that returned.
ModifyReturned(h) ==
    /\ hs[h].state = "open"
    /\ last'.op = "modify"
    /\ last'.h = h
    /\ last'.result = "ok"

\* A call with explicit obs_ix whose indices are all below the length the
\* handle reports.
IsInPlaceCall(call, handle) ==
    /\ handle.state = "open"
    /\ call.obs_ix.kind # "none"
    /\ LET ix == CheckObsIx(call.obs_ix)
       IN  /\ ix.err = "none"
           /\ \A j \in 1..Len(ix.arr.data) : ix.arr.data[j] < handle.len

\* C3: a successful modify call with explicit obs_ix, all indices below the
\* current length, that supplies some field overwrites exactly the supplied
\* fields at the indices in obs_ix; fields not supplied there and all fields of every other
\* observation keep their values, and the length is unchanged.
C3_PartialUpdate ==
    [][\A h \in SoleHandle :
         (ModifyReturned(h) /\ IsInPlaceCall(last'.args.call, hs[h])
              /\ Supplied(last'.args.call) # {})
            => PartialUpdate(h, last'.args.call)]_vars

\* C4: when a handle is released, the data file is gone if that handle
\* created it and no modify call through it returned, and is still on disk
\* otherwise, whatever modify calls, returning or raising, came before.
C4_TransientCleanup ==
    [][\A h \in SoleHandle :
         (hs[h].state = "open" /\ Release(h))
            => (datFile'.exists <=> ~(hist[h].created /\ ~hist[h].modified))]_vars

\* A handle that created the file was released before any modify call
\* through it returned, and the file is gone.
C4_Witness ==
    /\ last.op = "release"
    /\ hist[1].created /\ ~hist[1].modified
    /\ defFile.exists
    /\ ~datFile.exists

\* C5: once a definition is persisted, a construction for the same name and
\* directory, whatever node_id and layer_id it passes, returns, loads the
\* persisted node identifiers, n_node and schema, and no step changes the
\* persisted definition.
C5_ReopenLoads ==
    [][/\ defFile.exists => defFile' = defFile
       /\ \A h \in SoleHandle, node_id \in DefNodeIds, layer_id \in DefLayerIds :
            (defFile.exists /\ Construct(h, TRUE, node_id, layer_id))
               => /\ last'.result = "ok"
                  /\ hs'[h].state = "open"
                  /\ hs'[h].node_id = defFile.node_id
                  /\ hs'[h].n_node = defFile.n_node
                  /\ hs'[h].arch_dtype = defFile.arch_dtype]_vars

\* A construction that passed no node_id and an unusable layer_id has
\* returned with the persisted definition loaded.
C5_Witness ==
    /\ last.op = "construct" /\ last.result = "ok"
    /\ last.args.node_id = None
    /\ ~last.args.layer_id.valid
    /\ hs[1].state = "open"
    /\ hs[1].node_id = defFile.node_id

\* A modify call in which the data of a declared layer does not cast to the
\* layer's type, the index and graph arrays being acceptable.
IsLayerCastFailure(call, handle) ==
    /\ \E i \in 1..Len(call.layer_data) :
         /\ call.layer_data[i][1] \in LayerNames(handle.arch_dtype)
         /\ call.layer_data[i][2].elt # "num"
    /\ CheckDataInput(handle, call.obs_ix, call.arr_activity,
                      call.arr_adjacency, <<>>).err = "none"

\* C6: such a call raises the TypeError-kind error and leaves the store as
\* it was: file, length, mapping and transient flag.
C6_CastFailure ==
    [][\A h \in SoleHandle, call \in StoreCalls :
         (hs[h].state = "open" /\ IsLayerCastFailure(call, hs[h]) /\ Modify(h, call))
            => /\ last'.result = "mlPlexusTypeError"
               /\ UNCHANGED <<datFile, hs>>]_vars

\* The call without the keywords that name no declared layer.
KnownOnly(call, handle) ==
    [call EXCEPT !.layer_data =
        SelectSeq(call.layer_data, LAMBDA kv : kv[1] \in LayerNames(handle.arch_dtype))]

\* A call with an undeclared keyword and activity data that the same call
\* without that keyword writes.
IsUnknownFieldCall(call, handle, dat) ==
    /\ \E i \in 1..Len(call.layer_data) :
         call.layer_data[i][1] \notin LayerNames(handle.arch_dtype)
    /\ call.arr_activity.kind # "none"
    /\ LET k == KnownOnly(call, handle)
       IN  ModifyOutcome(handle, dat, k.obs_ix, k.arr_activity,
                         k.arr_adjacency, k.layer_data).result = "ok"

\* C7: such a call returns and writes what the call without the unknown
\* keyword writes, whatever the unknown data, with and without obs_ix.
C7_UnknownField ==
    [][\A h \in SoleHandle, call \in StoreCalls :
         (hs[h].state = "open" /\ IsUnknownFieldCall(call, hs[h], datFile)
              /\ Modify(h, call))
            => LET k == KnownOnly(call, hs[h])
                   o == ModifyOutcome(hs[h], datFile, k.obs_ix, k.arr_activity,
                                      k.arr_adjacency, k.layer_data)
               IN  /\ last'.result = "ok"
                   /\ datFile' = o.dat
                   /\ hs'[h] = o.handle]_vars

\* C8: across a modify call, returning or raising, neither the file nor the
\* handle's length decreases, and every stored record the call did not
\* assign to is the same record at the same index.
C8_Monotone ==
    [][\A h \in SoleHandle :
         (hs[h].state = "open" /\ last'.op = "modify" /\ hs'[h].state = "open")
            => /\ Len(datFile'.recs) >= Len(datFile.recs)
               /\ hs'[h].len >= hs[h].len
               /\ \A r \in 1..Len(datFile.recs) :
                    (r - 1) \notin last'.args.targets
                       => datFile'.recs[r] = datFile.recs[r]]_vars

\* An append has returned on a store that held a written record, which is
\* still first.
C8_Witness ==
    /\ last.op = "modify" /\ last.result = "ok"
    /\ last.args.append
    /\ last.args.targets = {1}
    /\ Len(datFile.recs) = 2
    /\ datFile.recs[1].activity = <<1, 2>>
    /\ datFile.recs[2].activity = <<1, 2>>

\* C9: whenever a handle is open, the data file holds as many records as the
\* handle reports observations.
C9_RecordCount ==
    \A h \in Handles :
        hs[h].state = "open" => datFile.exists /\ Len(datFile.recs) = hs[h].len

\* C10: a persisted node identifier sequence is one-dimensional, holds
\* strings only, holds no identifier twice, and n_node is its length.
C10_NodeIds ==
    defFile.exists =>
        /\ Ndim(defFile.node_id) = 1
        /\ defFile.node_id.elt = "str"
        /\ Cardinality({defFile.node_id.data[i] : i \in 1..Len(defFile.node_id.data)})
              = Len(defFile.node_id.data)
        /\ defFile.n_node = Len(defFile.node_id.data)


\* A construction whose node_id is absent or no np.ndarray, or whose
\* layer_id does not convert to a record schema.
IsBadCreate(node_id, layer_id) ==
    \/ ~checkType_ndarray(node_id)
    \/ ~layer_id.valid

\* C11: while no definition is persisted, such a construction raises the
\* TypeError-kind error and leaves neither a definition file nor a data file,
\* so that the next construction still takes the creation branch.
C11_CreateFailure ==
    [][\A h \in SoleHandle, node_id \in DefNodeIds, layer_id \in DefLayerIds :
         (~defFile.exists /\ IsBadCreate(node_id, layer_id)
              /\ Construct(h, TRUE, node_id, layer_id))
            => /\ last'.result = "mlPlexusTypeError"
               /\ ~defFile'.exists
               /\ ~datFile'.exists
               /\ DefMissing(defFile')]_vars


\* A call with explicit obs_ix that names at least one index.
IsExplicitCall(call) ==
    /\ call.obs_ix.kind # "none"
    /\ LET ix == CheckObsIx(call.obs_ix)
       IN  ix.err = "none" /\ Len(ix.arr.data) > 0

\* C12: after a modify call with explicit obs_ix has returned on a store of
\* length L, the store's length is max(L, max(obs_ix) + 1).
C12_Growth ==
    [][\A h \in SoleHandle :
         (ModifyReturned(h) /\ IsExplicitCall(last'.args.call))
            => LET L == hs[h].len
                   m == SeqMax(CheckObsIx(last'.args.call.obs_ix).arr.data)
               IN  hs'[h].len = IF m + 1 > L THEN m + 1 ELSE L]_vars

\* C13: a modify call that raises the ValueError-kind error leaves the data
\* file, the handle's length and mapping and its transient flag as they were.
C13_RejectedBeforeWrite ==
    [][\A h \in SoleHandle :
         (hs[h].state = "open" /\ last'.op = "modify" /\ last'.h = h
              /\ last'.result = "mlPlexusValueError")
            => UNCHANGED <<datFile, hs>>]_vars

\* A modify call has raised the ValueError-kind error on a store that holds
\* two written observations.
C13_Witness ==
    /\ last.op = "modify" /\ last.result = "mlPlexusValueError"
    /\ hs[1].state = "open" /\ hs[1].len = 2 /\ hs[1].mode = "r"
    /\ Len(datFile.recs) = 2
    /\ datFile.recs[1].activity = <<1, 2>>
    /\ datFile.recs[2].activity = <<3, 4>>

\* C14: the transient flag of an open handle is set exactly when the handle
\* created the data file and no modify call through it has written an
\* observation.
C14_TransientFlag ==
    \A h \in Handles :
        hs[h].state = "open"
           => (hs[h].data_new <=> (hist[h].created /\ ~hist[h].wrote))

\* C17: an open handle with no modify call in progress maps the data file
\* read-only.
C17_ReadOnlyAtRest ==
    \A h \in Handles :
        (hs[h].state = "open" /\ pc[h].at = "idle") => hs[h].mode = "r"


\* The larger of two integers.
Larger(a, b) == IF a > b THEN a ELSE b

\* The append in progress through h was checked against a length below the
\* file's: another writer has extended the file since this handle mapped it.
\* The file is on disk and is the one the call's mapping, if made, maps.
IsStaleAppend(h) ==
    /\ pc[h].call.obs_ix.kind = "none"
    /\ datFile.exists
    /\ ~pc[h].detached
    /\ pc[h].c.obs_ix.data[1] < Len(datFile.recs)

\* C15: with two writers on one data file, an append through a handle whose
\* length was read before the other writer's append takes its indices from
\* that stale length: the reopening leaves the file at the larger of its
\* length and this writer's last index plus one, never at the file's length
\* plus the appended count, and the write replaces whatever the file holds
\* at those indices, the other writer's observations included, by this
\* writer's rows.
C15_LostAppend ==
    [][\A h \in Handles :
         /\ (pc[h].at = "idle" /\ pc'[h].at = "reopen" /\ pc'[h].call.obs_ix.kind = "none")
               => pc'[h].c.obs_ix.data[1] = hs[h].len
         /\ (pc[h].at = "reopen" /\ pc'[h].at = "write" /\ IsStaleAppend(h))
               => /\ Len(datFile'.recs)
                        = Larger(Len(datFile.recs), SeqMax(pc[h].c.obs_ix.data) + 1)
                  /\ Len(datFile'.recs)
                        < Len(datFile.recs) + Len(pc[h].c.obs_ix.data)
         /\ (pc[h].at = "write" /\ pc'[h].at = "finish" /\ IsStaleAppend(h))
               => /\ Len(datFile'.recs) = Len(datFile.recs)
                  /\ \A j \in 1..Len(pc[h].c.obs_ix.data) :
                       datFile'.recs[pc[h].c.obs_ix.data[j] + 1].activity
                          = Row(pc[h].c.arr_activity, j)]_vars

\* Both writers opened the store at length 1, each appended one observation
\* and both calls returned: the file holds two records, not three, and at
\* index 1 the observation of writer 2, that of writer 1 being lost.
C15_Witness ==
    /\ \A h \in Handles :
         /\ hs[h].state = "open"
         /\ ~hist[h].created
         /\ hist[h].wrote
         /\ pc[h].at = "idle"
         /\ pc[h].call.obs_ix.kind = "none"
         /\ pc[h].c.obs_ix.data = <<1>>
    /\ last.op = "modify" /\ last.result = "ok" /\ last.h = 2
    /\ Len(datFile.recs) = 2
    /\ datFile.recs[2].activity = <<2, 2>>
    /\ \A r \in 1..Len(datFile.recs) : datFile.recs[r].activity # <<1, 1>>

\* The data file holds an observation that a modify call wrote.
HoldsWritten(dat, arch_dtype) ==
    /\ dat.exists
    /\ \E r \in 1..Len(dat.recs) : dat.recs[r] # ZeroRec(arch_dtype)

\* C16: with several handles on one (name, directory), opened one after
\* another, the release of a handle, between calls, never removes a data
\* file that holds a written observation.
C16_WrittenFileStays ==
    [][\A h \in Handles :
         (hs[h].state = "open" /\ AllIdle /\ HoldsWritten(datFile, hs[h].arch_dtype)
              /\ Release(h))
            => datFile'.exists]_vars

=============================================================================
